---- MODULE Spec2Model ----
(***************************************************************************)
(* The 'screenshot' command (cmds/screenshot/screenshot.cpp): main asks    *)
(* the SurfaceFlinger for the display geometry, allocates and maps an      *)
(* ashmem region, has the screen grabbed into it, and write_data sends a   *)
(* struct fbinfo header and the scan lines, bottom row last, through       *)
(* writex to standard output.                                              *)
(*                                                                         *)
(* The sink (standard output) is the environment: every write(2) issued    *)
(* by writex ends in one of four ways, a positive count r <= len, -1 with  *)
(* errno EINTR, -1 with another errno, or 0 with errno untouched.          *)
(* Unsigned arithmetic is 32 bits wide in the source; the geometry bounds  *)
(* keep every product far below 2^31, so no product here wraps.            *)
(***************************************************************************)
EXTENDS Integers, Sequences, FiniteSets, TLC

(* ---------------- bounds of the model ---------------- *)
MaxW == 4
MaxH == 2
MaxIntr == 1
MaxSpan == 5
MaxCallW == 2
MaxCallH == 2

(* ---------------- program constants ---------------- *)
DDMS_RAWIMAGE_VERSION == 1
PIXEL_FORMAT_RGBA_8888 == 1
PIXEL_FORMAT_RGB_888 == 3
PIXEL_FORMAT_RGB_565 == 4
eOrientationSwapMask == 1
NO_ERROR == 0
BAD_VALUE == -22
EINTR == 4
EIO == 5
FieldBytes == 4
ByteRange == 256

(* Contents an uninitialised automatic variable may hold. *)
Garbage == {0, 1515870810}

(* errno values a failing call (other than an interrupted write) leaves. *)
HardErrnos == {EIO}

(* struct fbinfo, in declaration order (packed, 13 unsigned ints). *)
fbinfoFields_GreenBeforeBlue ==
  << "version", "bpp", "size", "width", "height",
     "red_offset", "red_length", "green_offset", "green_length",
     "blue_offset", "blue_length", "alpha_offset", "alpha_length" >>

fbinfoFields ==
  << "version", "bpp", "size", "width", "height",
     "red_offset", "red_length", "blue_offset", "blue_length",
     "green_offset", "green_length", "alpha_offset", "alpha_length" >>

(* sizeof(struct fbinfo) *)
SizeofFbinfo == Len(fbinfoFields) * FieldBytes

(* bytesPerPixel of a pixel format, as the compositor reports it. *)
BytesPerPixel(format) ==
  CASE format = PIXEL_FORMAT_RGBA_8888 -> 4
    [] format = PIXEL_FORMAT_RGB_888 -> 3
    [] format = PIXEL_FORMAT_RGB_565 -> 2

Formats == {PIXEL_FORMAT_RGBA_8888, PIXEL_FORMAT_RGB_888, PIXEL_FORMAT_RGB_565}
Orientations == 0..3

VARIABLES
  pc,        \* position of main / write_data / writex
  info,      \* DisplayInfo: w, h, format, bytesPerPixel, orientation
  reported,  \* the DisplayInfo exactly as getDisplayInfo returned it (history)
  fb_size,   \* size_t fb_size of main
  fb_fd,     \* the ashmem handle: "none", "open", "closed"
  mapping,   \* the mmap of the region: "none", "mapped", "unmapped"
  frame,     \* bytes of the shared region
  fbinfo,    \* struct fbinfo of write_data
  linesize,  \* write_data local
  y,         \* write_data loop counter
  data,      \* write_data's data pointer, as an offset into the region
  wsrc,      \* which object writex's ptr points into: "fbinfo" or "data"
  p,         \* writex's p, as an offset into that object
  len,       \* writex's remaining len
  errno,     \* the C errno
  err,       \* status_t err of main
  exitCode,  \* exit status of the process, -1 while running
  sink,      \* bytes standard output has accepted
  ops,       \* external operations performed so far, in order (history)
  failed,    \* a write(2) has failed other than by EINTR (history)
  wroteAfterFail, \* a write(2) was issued after such a failure (history)
  intr       \* number of interrupted writes so far (history, bounded)

vars == << pc, info, reported, fb_size, fb_fd, mapping, frame, fbinfo, linesize,
           y, data, wsrc, p, len, errno, err, exitCode, sink, ops, failed,
           wroteAfterFail, intr >>

NoInfo == [w |-> 0, h |-> 0, format |-> 0, bytesPerPixel |-> 0, orientation |-> 0]
ZeroFbinfo == [f \in {fbinfoFields[i] : i \in 1..Len(fbinfoFields)} |-> 0]

Init ==
  /\ pc = "getDisplayInfo"
  /\ info = NoInfo
  /\ reported = NoInfo
  /\ fb_size = 0
  /\ fb_fd = "none"
  /\ mapping = "none"
  /\ frame = << >>
  /\ fbinfo = ZeroFbinfo
  /\ linesize = 0
  /\ y = 0
  /\ data = 0
  /\ wsrc = "none"
  /\ p = 0
  /\ len = 0
  /\ errno = 0
  /\ err = 0
  /\ exitCode = -1
  /\ sink = << >>
  /\ ops = << >>
  /\ failed = FALSE
  /\ wroteAfterFail = FALSE
  /\ intr = 0

(* The exit status the parent sees for main's return value. *)
ExitStatus(ret) == ret % ByteRange

(* main, lines 141-145: srfCmp.getDisplayInfo(dpy, &info). *)
GetDisplayInfoOk ==
  /\ pc = "getDisplayInfo"
  /\ \E w \in 0..MaxW, h \in 0..MaxH, f \in Formats, o \in Orientations :
       /\ info' = [w |-> w, h |-> h, format |-> f,
                   bytesPerPixel |-> BytesPerPixel(f), orientation |-> o]
       /\ reported' = info'
  /\ ops' = Append(ops, "getDisplayInfo")
  /\ pc' = "orientation"
  /\ UNCHANGED << fb_size, fb_fd, mapping, frame, fbinfo, linesize, y, data, wsrc,
                  p, len, errno, err, exitCode, sink, failed, wroteAfterFail, intr >>

GetDisplayInfoFail ==
  /\ pc = "getDisplayInfo"
  /\ \E e \in HardErrnos : err' = -e
  /\ ops' = Append(ops, "getDisplayInfo")
  /\ exitCode' = ExitStatus(-1)
  /\ pc' = "exit"
  /\ UNCHANGED << info, reported, fb_size, fb_fd, mapping, frame, fbinfo, linesize,
                  y, data, wsrc, p, len, errno, sink, failed, wroteAfterFail, intr >>

(* main, line 147: info.orientation & ISurfaceComposer::eOrientationSwapMask. *)
SwapNeeded_NeverSwap(orientation) == FALSE

SwapNeeded(orientation) == (orientation \div eOrientationSwapMask) % 2 = 1

(* main, lines 147-154: undo the orientation correction of w and h. *)
Corrected(i) ==
  IF SwapNeeded(i.orientation) THEN [i EXCEPT !.w = i.h, !.h = i.w] ELSE i

(* main, line 156: fb_size = info.w * info.h * bytesPerPixel. *)
FbSize(i) == i.w * i.h * i.bytesPerPixel

(* main, lines 147-156. *)
OrientationCorrect ==
  /\ pc = "orientation"
  /\ info' = Corrected(info)
  /\ fb_size' = FbSize(info')
  /\ pc' = "ashmem_create_region"
  /\ UNCHANGED << reported, fb_fd, mapping, frame, fbinfo, linesize, y, data, wsrc,
                  p, len, errno, err, exitCode, sink, ops, failed, wroteAfterFail, intr >>

(* main, lines 158-162: ashmem_create_region(NULL, fb_size). *)
AshmemCreateOk ==
  /\ pc = "ashmem_create_region"
  /\ fb_fd' = "open"
  /\ frame' = [i \in 1..fb_size |-> 0]
  /\ ops' = Append(ops, "ashmem_create_region")
  /\ pc' = "mmap"
  /\ UNCHANGED << info, reported, fb_size, mapping, fbinfo, linesize, y, data, wsrc,
                  p, len, errno, err, exitCode, sink, failed, wroteAfterFail, intr >>

AshmemCreateFail ==
  /\ pc = "ashmem_create_region"
  /\ \E e \in HardErrnos :
       /\ errno' = e
       /\ exitCode' = ExitStatus(-e)
  /\ ops' = Append(ops, "ashmem_create_region")
  /\ pc' = "exit"
  /\ UNCHANGED << info, reported, fb_size, fb_fd, mapping, frame, fbinfo, linesize,
                  y, data, wsrc, p, len, err, sink, failed, wroteAfterFail, intr >>

(* main, lines 166-170: mmap(0, fb_size, PROT_READ, MAP_SHARED, fb_fd, 0). *)
MmapOk ==
  /\ pc = "mmap"
  /\ mapping' = "mapped"
  /\ ops' = Append(ops, "mmap")
  /\ pc' = "grabScreen"
  /\ UNCHANGED << info, reported, fb_size, fb_fd, frame, fbinfo, linesize, y, data,
                  wsrc, p, len, errno, err, exitCode, sink, failed, wroteAfterFail, intr >>

MmapFail_Ignored ==
  /\ pc = "mmap"
  /\ \E e \in HardErrnos : errno' = e
  /\ ops' = Append(ops, "mmap")
  /\ pc' = "grabScreen"
  /\ UNCHANGED << info, reported, fb_size, fb_fd, mapping, frame, fbinfo, linesize,
                  y, data, wsrc, p, len, err, exitCode, sink, failed, wroteAfterFail,
                  intr >>

MmapFail ==
  /\ pc = "mmap"
  /\ \E e \in HardErrnos :
       /\ errno' = e
       /\ exitCode' = ExitStatus(-e)
  /\ ops' = Append(ops, "mmap")
  /\ pc' = "exit"
  /\ UNCHANGED << info, reported, fb_size, fb_fd, mapping, frame, fbinfo, linesize,
                  y, data, wsrc, p, len, err, sink, failed, wroteAfterFail, intr >>

(* What the compositor may leave in the region: byte i is (seed * i) mod 256. *)
FrameSeeds == {1, 3}
Captured(seed, n) == [i \in 1..n |-> (seed * i) % ByteRange]

(* main, lines 172-176: srfCmp.grabScreen(dpy, fb_fd). *)
GrabScreenOk ==
  /\ pc = "grabScreen"
  /\ \E seed \in FrameSeeds : frame' = Captured(seed, fb_size)
  /\ err' = NO_ERROR
  /\ ops' = Append(ops, "grabScreen")
  /\ pc' = "write_data"
  /\ UNCHANGED << info, reported, fb_size, fb_fd, mapping, fbinfo, linesize, y, data,
                  wsrc, p, len, errno, exitCode, sink, failed, wroteAfterFail, intr >>

GrabScreenFail_Ignored ==
  /\ pc = "grabScreen"
  /\ \E e \in HardErrnos : err' = -e
  /\ ops' = Append(ops, "grabScreen")
  /\ pc' = "write_data"
  /\ UNCHANGED << info, reported, fb_size, fb_fd, mapping, frame, fbinfo, linesize,
                  y, data, wsrc, p, len, errno, exitCode, sink, failed,
                  wroteAfterFail, intr >>

GrabScreenFail ==
  /\ pc = "grabScreen"
  /\ \E e \in HardErrnos : err' = -e
  /\ ops' = Append(ops, "grabScreen")
  /\ exitCode' = ExitStatus(-1)
  /\ pc' = "exit"
  /\ UNCHANGED << info, reported, fb_size, fb_fd, mapping, frame, fbinfo, linesize,
                  y, data, wsrc, p, len, errno, sink, failed, wroteAfterFail, intr >>

(* write_data, lines 89-106: the formats the switch has a case for. *)
Supported_NoDefault(format) == TRUE

Supported(format) == format \in {PIXEL_FORMAT_RGBA_8888, PIXEL_FORMAT_RGB_565}

(* write_data, lines 83-87: the geometry fields of the header. *)
Geometry_SizeInPixels(fb, i) ==
  [fb EXCEPT !.version = DDMS_RAWIMAGE_VERSION,
             !.bpp = i.bytesPerPixel * 8,
             !.size = i.w * i.h,
             !.width = i.w,
             !.height = i.h]

Geometry(fb, i) ==
  [fb EXCEPT !.version = DDMS_RAWIMAGE_VERSION,
             !.bpp = i.bytesPerPixel * 8,
             !.size = i.w * i.h * i.bytesPerPixel,
             !.width = i.w,
             !.height = i.h]

(* write_data, lines 91-101: the channel fields the two cases assign. *)
Channels(fb, format) ==
  IF format = PIXEL_FORMAT_RGBA_8888
    THEN [fb EXCEPT !.red_offset = 0, !.red_length = 8,
                    !.green_offset = 8, !.green_length = 8,
                    !.blue_offset = 16, !.blue_length = 8]
    ELSE [fb EXCEPT !.red_offset = 11, !.red_length = 5,
                    !.green_offset = 5, !.green_length = 6,
                    !.blue_offset = 0, !.blue_length = 5]

(* write_data, line 79: struct fbinfo fbinfo is declared without an     *)
(* initialiser; alpha_offset and alpha_length are assigned nowhere, so  *)
(* they keep whatever the stack held.                                   *)
Uninitialised(ga, gl) ==
  [ZeroFbinfo EXCEPT !.alpha_offset = ga, !.alpha_length = gl]

(* An unsigned int as its four bytes in memory, least significant first. *)
Bytes4(v) == [k \in 1..FieldBytes |-> (v \div (ByteRange ^ (k - 1))) % ByteRange]

(* The object representation of a struct fbinfo: sizeof(fbinfo) bytes. *)
HeaderBytes(fb) ==
  [k \in 1..SizeofFbinfo |->
     Bytes4(fb[fbinfoFields[((k - 1) \div FieldBytes) + 1]])[((k - 1) % FieldBytes) + 1]]

(* The bytes writex's ptr points into. *)
Src == IF wsrc = "fbinfo" THEN HeaderBytes(fbinfo) ELSE frame

(* write_data, lines 89-106, default case: return BAD_VALUE. *)
WriteDataUnsupported ==
  /\ pc = "write_data"
  /\ ~Supported(info.format)
  /\ \E ga \in Garbage, gl \in Garbage :
       fbinfo' = Geometry(Uninitialised(ga, gl), info)
  /\ err' = BAD_VALUE
  /\ ops' = Append(ops, "write_data")
  /\ pc' = "write_data_ret"
  /\ UNCHANGED << info, reported, fb_size, fb_fd, mapping, frame, linesize, y, data,
                  wsrc, p, len, errno, exitCode, sink, failed, wroteAfterFail, intr >>

(* write_data, lines 79-108: build the header and call writex on it. *)
WriteDataHeader ==
  /\ pc = "write_data"
  /\ Supported(info.format)
  /\ \E ga \in Garbage, gl \in Garbage :
       fbinfo' = Channels(Geometry(Uninitialised(ga, gl), info), info.format)
  /\ wsrc' = "fbinfo"
  /\ p' = 0
  /\ len' = SizeofFbinfo
  /\ ops' = Append(ops, "write_data")
  /\ pc' = "writex_hdr"
  /\ UNCHANGED << info, reported, fb_size, fb_fd, mapping, frame, linesize, y, data,
                  errno, err, exitCode, sink, failed, wroteAfterFail, intr >>

(* writex, lines 65-71: what the loop does with write's result r and errno e. *)
WritexOutcome_EintrFatal(r, e) == IF r > 0 THEN "advance" ELSE "return"

WritexOutcome_StaleErrno(r, e) ==
  IF r > 0 THEN "advance"
  ELSE IF e = EINTR THEN "continue"
  ELSE "return"

WritexOutcome(r, e) ==
  IF r > 0 THEN "advance"
  ELSE IF r < 0 /\ e = EINTR THEN "continue"
  ELSE "return"

(* write_data, lines 110 and 124: return -errno. *)
WriteDataStatus(e) == -e

(* writex, line 67: p += r. *)
Advance_Stuck(q, r) == q

Advance(q, r) == q + r

(* writex, lines 63-72: one iteration of the loop, write(fd, p, len)     *)
(* returning r and leaving errno e; on "return" writex returns -1 and    *)
(* write_data returns -errno to main (lines 108-111, 122-125).           *)
WritexIter(r, e) ==
  /\ pc \in {"writex_hdr", "writex_row"}
  /\ len > 0
  /\ wroteAfterFail' = (wroteAfterFail \/ failed)
  /\ errno' = e
  /\ sink' = IF r > 0 THEN sink \o SubSeq(Src, p + 1, p + r) ELSE sink
  /\ LET o == WritexOutcome(r, e) IN
       /\ p' = IF o = "advance" THEN Advance(p, r) ELSE p
       /\ len' = IF o = "advance" THEN len - r ELSE len
       /\ pc' = IF o = "return" THEN "write_data_ret" ELSE pc
       /\ err' = IF o = "return" THEN WriteDataStatus(e) ELSE err
  /\ UNCHANGED << info, reported, fb_size, fb_fd, mapping, frame, fbinfo, linesize,
                  y, data, wsrc, exitCode, ops >>

(* The counts write(2) may return for len bytes offered: all of them, or *)
(* a short write of half of them (rounded up) or of a single byte.      *)
AcceptCounts(n) == {n, (n + 1) \div 2, 1}

(* write(2) accepts r of the len bytes offered. *)
WriteAccepts ==
  /\ \E r \in AcceptCounts(len) : WritexIter(r, errno)
  /\ UNCHANGED << failed, intr >>

(* write(2) is interrupted by a signal before it transfers anything. *)
WriteInterrupted ==
  /\ intr < MaxIntr
  /\ WritexIter(-1, EINTR)
  /\ intr' = intr + 1
  /\ UNCHANGED failed

(* write(2) fails with an errno other than EINTR. *)
WriteError ==
  /\ \E e \in HardErrnos : WritexIter(-1, e)
  /\ failed' = TRUE
  /\ UNCHANGED intr

(* write(2) returns 0 and leaves errno as it was. *)
WriteZero ==
  /\ WritexIter(0, errno)
  /\ failed' = TRUE
  /\ UNCHANGED intr

(* write_data, line 117. *)
LineSize_NoBpp(i) == i.w

LineSize(i) == i.bytesPerPixel * i.w

(* write_data, lines 108 and 117-120: the header is out; set up the rows. *)
HeaderWritten ==
  /\ pc = "writex_hdr"
  /\ len = 0
  /\ linesize' = LineSize(info)
  /\ data' = linesize' * info.h
  /\ y' = 0
  /\ pc' = "row_loop"
  /\ UNCHANGED << info, reported, fb_size, fb_fd, mapping, frame, fbinfo, wsrc, p,
                  len, errno, err, exitCode, sink, ops, failed, wroteAfterFail, intr >>

(* write_data, line 121: data -= linesize. *)
RowStart_NoMove(d, ls) == d

RowStart(d, ls) == d - ls

(* write_data, lines 120-122: next row, writex(fd, data, linesize). *)
RowNext ==
  /\ pc = "row_loop"
  /\ y < info.h
  /\ data' = RowStart(data, linesize)
  /\ wsrc' = "data"
  /\ p' = data'
  /\ len' = linesize
  /\ pc' = "writex_row"
  /\ UNCHANGED << info, reported, fb_size, fb_fd, mapping, frame, fbinfo, linesize,
                  y, errno, err, exitCode, sink, ops, failed, wroteAfterFail, intr >>

(* write_data, lines 120-126: writex returned 0 for the row; y++. *)
RowWritten ==
  /\ pc = "writex_row"
  /\ len = 0
  /\ y' = y + 1
  /\ pc' = "row_loop"
  /\ UNCHANGED << info, reported, fb_size, fb_fd, mapping, frame, fbinfo, linesize,
                  data, wsrc, p, len, errno, err, exitCode, sink, ops, failed,
                  wroteAfterFail, intr >>

(* write_data, lines 120 and 128: the loop ends, return NO_ERROR. *)
RowsDone ==
  /\ pc = "row_loop"
  /\ ~(y < info.h)
  /\ err' = NO_ERROR
  /\ pc' = "write_data_ret"
  /\ UNCHANGED << info, reported, fb_size, fb_fd, mapping, frame, fbinfo, linesize,
                  y, data, wsrc, p, len, errno, exitCode, sink, ops, failed,
                  wroteAfterFail, intr >>

(* main, line 179: if(err). *)
EncodeFailed(e) == e # 0

(* main, lines 179-182: write_data failed, return -1. *)
MainEncodeFailed ==
  /\ pc = "write_data_ret"
  /\ EncodeFailed(err)
  /\ exitCode' = ExitStatus(-1)
  /\ pc' = "exit"
  /\ UNCHANGED << info, reported, fb_size, fb_fd, mapping, frame, fbinfo, linesize,
                  y, data, wsrc, p, len, errno, err, sink, ops, failed, wroteAfterFail,
                  intr >>

(* main, lines 179-184: write_data returned 0, go on to the cleanup. *)
MainEncodeOk ==
  /\ pc = "write_data_ret"
  /\ ~EncodeFailed(err)
  /\ pc' = "munmap"
  /\ UNCHANGED << info, reported, fb_size, fb_fd, mapping, frame, fbinfo, linesize,
                  y, data, wsrc, p, len, errno, err, exitCode, sink, ops, failed,
                  wroteAfterFail, intr >>

(* main, lines 184-187: munmap(data, fb_size) succeeds. *)
MunmapOk ==
  /\ pc = "munmap"
  /\ mapping' = "unmapped"
  /\ ops' = Append(ops, "munmap")
  /\ pc' = "close"
  /\ UNCHANGED << info, reported, fb_size, fb_fd, frame, fbinfo, linesize, y, data,
                  wsrc, p, len, errno, err, exitCode, sink, failed, wroteAfterFail, intr >>

(* main, lines 184-187: munmap fails; the failure is logged and ignored. *)
MunmapFail_Fatal ==
  /\ pc = "munmap"
  /\ \E e \in HardErrnos :
       /\ errno' = e
       /\ exitCode' = ExitStatus(-e)
  /\ ops' = Append(ops, "munmap")
  /\ pc' = "exit"
  /\ UNCHANGED << info, reported, fb_size, fb_fd, mapping, frame, fbinfo, linesize,
                  y, data, wsrc, p, len, err, sink, failed, wroteAfterFail, intr >>

MunmapFail ==
  /\ pc = "munmap"
  /\ \E e \in HardErrnos : errno' = e
  /\ ops' = Append(ops, "munmap")
  /\ pc' = "close"
  /\ UNCHANGED << info, reported, fb_size, fb_fd, mapping, frame, fbinfo, linesize,
                  y, data, wsrc, p, len, err, exitCode, sink, failed, wroteAfterFail,
                  intr >>

(* main, lines 189-190: close(fb_fd); return 0. *)
CloseAndReturn ==
  /\ pc = "close"
  /\ fb_fd' = "closed"
  /\ ops' = Append(ops, "close")
  /\ exitCode' = ExitStatus(0)
  /\ pc' = "exit"
  /\ UNCHANGED << info, reported, fb_size, mapping, frame, fbinfo, linesize, y, data,
                  wsrc, p, len, errno, err, sink, failed, wroteAfterFail, intr >>

Next ==
  \/ GetDisplayInfoOk \/ GetDisplayInfoFail
  \/ OrientationCorrect
  \/ AshmemCreateOk \/ AshmemCreateFail
  \/ MmapOk \/ MmapFail
  \/ GrabScreenOk \/ GrabScreenFail
  \/ WriteDataUnsupported \/ WriteDataHeader
  \/ WriteAccepts \/ WriteInterrupted \/ WriteError \/ WriteZero
  \/ HeaderWritten \/ RowNext \/ RowWritten \/ RowsDone
  \/ MainEncodeFailed \/ MainEncodeOk
  \/ MunmapOk \/ MunmapFail
  \/ CloseAndReturn

Spec == Init /\ [][Next]_vars

(* ------------------------------------------------------------------ *)
(* writex on its own (lines 58-75): a call writex(fd, ptr, len) for    *)
(* any span of a buffer, against a sink that may accept any number of  *)
(* bytes from 1 to len at each write.                                  *)
(* ------------------------------------------------------------------ *)
InitWritex ==
  /\ \E n \in 0..MaxSpan, seed \in FrameSeeds :
       /\ frame = Captured(seed, n)
       /\ fb_size = n
  /\ data \in 0..fb_size
  /\ linesize \in 0..(fb_size - data)
  /\ wsrc = "data"
  /\ p = data
  /\ len = linesize
  /\ pc = "writex_row"
  /\ info = NoInfo
  /\ reported = NoInfo
  /\ fb_fd = "open"
  /\ mapping = "mapped"
  /\ fbinfo = ZeroFbinfo
  /\ y = 0
  /\ errno = 0
  /\ err = 0
  /\ exitCode = -1
  /\ sink = << >>
  /\ ops = << "getDisplayInfo", "ashmem_create_region", "mmap", "grabScreen",
              "write_data" >>
  /\ failed = FALSE
  /\ wroteAfterFail = FALSE
  /\ intr = 0

(* write(2) accepts any r of the len bytes offered, 1 <= r <= len. *)
WriteAny ==
  /\ \E r \in 1..len : WritexIter(r, errno)
  /\ UNCHANGED << failed, intr >>

NextWritex ==
  \/ WriteAny \/ WriteInterrupted \/ WriteError \/ WriteZero
  \/ RowWritten

SpecWritex == InitWritex /\ [][NextWritex]_vars

(* ------------------------------------------------------------------ *)
(* write_data on its own (lines 77-129), called as main calls it, on a *)
(* captured and mapped buffer, with a sink that may interrupt without  *)
(* bound as long as it does not interrupt forever: the interruptions   *)
(* beyond MaxIntr are not counted, and every step other than an        *)
(* interrupted write is weakly fair (the single thread keeps running   *)
(* and a write attempt eventually ends otherwise than by EINTR).       *)
(* ------------------------------------------------------------------ *)
InitWriteData ==
  /\ \E w \in 0..MaxCallW, h \in 0..MaxCallH, f \in Formats :
       info = [w |-> w, h |-> h, format |-> f,
               bytesPerPixel |-> BytesPerPixel(f), orientation |-> 0]
  /\ reported = info
  /\ fb_size = FbSize(info)
  /\ \E seed \in FrameSeeds : frame = Captured(seed, fb_size)
  /\ fb_fd = "open"
  /\ mapping = "mapped"
  /\ pc = "write_data"
  /\ fbinfo = ZeroFbinfo
  /\ linesize = 0
  /\ y = 0
  /\ data = 0
  /\ wsrc = "none"
  /\ p = 0
  /\ len = 0
  /\ errno = 0
  /\ err = 0
  /\ exitCode = -1
  /\ sink = << >>
  /\ ops = << "getDisplayInfo", "ashmem_create_region", "mmap", "grabScreen" >>
  /\ failed = FALSE
  /\ wroteAfterFail = FALSE
  /\ intr = 0

WriteInterruptedAgain ==
  /\ intr = MaxIntr
  /\ WritexIter(-1, EINTR)
  /\ UNCHANGED << failed, intr >>

Progress ==
  \/ WriteDataUnsupported \/ WriteDataHeader
  \/ WriteAccepts \/ WriteError \/ WriteZero
  \/ HeaderWritten \/ RowNext \/ RowWritten \/ RowsDone

NextWriteData == Progress \/ WriteInterrupted \/ WriteInterruptedAgain

SpecWriteData == InitWriteData /\ [][NextWriteData]_vars /\ WF_vars(Progress)

TypeOK ==
  /\ pc \in {"getDisplayInfo", "orientation", "ashmem_create_region", "mmap",
             "grabScreen", "write_data", "writex_hdr", "row_loop", "writex_row",
             "write_data_ret", "munmap", "close", "exit"}
  /\ fb_fd \in {"none", "open", "closed"}
  /\ mapping \in {"none", "mapped", "unmapped"}
  /\ Len(frame) \in {0, fb_size}
  /\ exitCode \in -1..(ByteRange - 1)
  /\ intr \in 0..MaxIntr

(* ------------------------------------------------------------------ *)
(* A reference run of write_data (lines 77-129) against a sink that    *)
(* accepts every write in full.                                        *)
(* ------------------------------------------------------------------ *)
RECURSIVE RowsFrom(_, _, _, _)
RowsFrom(f, d, ls, n) ==
  IF n = 0 THEN << >>
  ELSE SubSeq(f, (d - ls) + 1, d) \o RowsFrom(f, d - ls, ls, n - 1)

CleanStream(fb, i, f) ==
  IF Supported(i.format)
    THEN HeaderBytes(fb) \o RowsFrom(f, LineSize(i) * i.h, LineSize(i), i.h)
    ELSE << >>

CleanStatus(i) == IF Supported(i.format) THEN NO_ERROR ELSE BAD_VALUE

(* ------------------------------------------------------------------ *)
(* Vocabulary of the properties.                                       *)
(* ------------------------------------------------------------------ *)
Did(op) == \E k \in 1..Len(ops) : ops[k] = op

Exited == pc = "exit"

(* write_data has returned to main. *)
Returned == Did("write_data") /\ pc \in {"write_data_ret", "munmap", "close", "exit"}

(* The pixel formats the wire format knows, by their tags. *)
WireFormat(format) ==
  format = PIXEL_FORMAT_RGBA_8888 \/ format = PIXEL_FORMAT_RGB_565

(* Bytes of the sink after the header. *)
PixelsSent == SubSeq(sink, SizeofFbinfo + 1, Len(sink))

(* Rows of f (h rows of ls bytes) in reversed order, byte by byte. *)
Reversed(f, h, ls) ==
  [k \in 1..(h * ls) |-> f[(h - 1 - ((k - 1) \div ls)) * ls + ((k - 1) % ls) + 1]]

(* The whole stream a complete encode of the frame leaves in the sink. *)
FullStream == HeaderBytes(fbinfo) \o Reversed(frame, info.h, info.bytesPerPixel * info.w)

StrictPrefix(s, t) == Len(s) < Len(t) /\ SubSeq(t, 1, Len(s)) = s

(* Every step of the run succeeded and the whole stream reached the sink. *)
AllSucceeded ==
  /\ Did("write_data")
  /\ WireFormat(info.format)
  /\ ~failed
  /\ Len(sink) = SizeofFbinfo + info.w * info.h * info.bytesPerPixel

(* C1: on every exit of a run that allocated the shared buffer, the    *)
(* mapping (if established) has been unmapped and the handle closed,   *)
(* each exactly once: no run ends with the handle open or the mapping  *)
(* mapped.                                                             *)
C1_ReleasedOnEveryExit ==
  (Exited /\ fb_fd # "none") =>
    /\ fb_fd = "closed"
    /\ mapping # "mapped"
    /\ Cardinality({k \in 1..Len(ops) : ops[k] = "close"}) = 1
    /\ (mapping = "unmapped" =>
          Cardinality({k \in 1..Len(ops) : ops[k] = "munmap"}) = 1)

(* C2: with a sink on which no write fails, once write_data has        *)
(* returned the bytes after the header are the rows of the captured    *)
(* buffer in reversed order, each row intact; for height 0 the header  *)
(* alone is emitted.                                                   *)
C2_RowsReversed ==
  (Returned /\ WireFormat(info.format) /\ ~failed) =>
    /\ Len(sink) >= SizeofFbinfo
    /\ PixelsSent = Reversed(frame, info.h, info.bytesPerPixel * info.w)
    /\ (info.h = 0 => Len(sink) = SizeofFbinfo)

C2_Witness ==
  /\ Exited
  /\ Did("write_data")
  /\ ~failed
  /\ info.h = 2
  /\ info.w = 2
  /\ info.format = PIXEL_FORMAT_RGB_565
  /\ PixelsSent = << frame[5], frame[6], frame[7], frame[8],
                     frame[1], frame[2], frame[3], frame[4] >>
  /\ frame[5] # frame[1]

(* C3: for a pixel format other than RGBA-8888 and RGB-565 write_data  *)
(* returns BAD_VALUE, no byte at all reaches the sink, and the process *)
(* exits with a nonzero code.                                          *)
C3_UnsupportedFormat ==
  (Did("write_data") /\ ~WireFormat(info.format)) =>
    /\ sink = << >>
    /\ err = BAD_VALUE
    /\ pc \in {"write_data_ret", "exit"}
    /\ (Exited => exitCode # 0)

C3_Witness ==
  /\ Exited
  /\ Did("write_data")
  /\ info.format = PIXEL_FORMAT_RGB_888
  /\ info.w > 0
  /\ info.h > 0
  /\ exitCode = 255

(* C4: a run whose writes are interrupted (EINTR) any number of times  *)
(* but never fail otherwise leaves, once write_data has returned, the  *)
(* same bytes in the sink and the same status as a run against a sink  *)
(* that accepts every write.                                           *)
C4_InterruptionInvisible ==
  (Returned /\ ~failed) =>
    /\ sink = CleanStream(fbinfo, info, frame)
    /\ err = CleanStatus(info)

C4_Witness ==
  /\ Exited
  /\ intr > 0
  /\ ~failed
  /\ errno = EINTR
  /\ exitCode = 0
  /\ Len(sink) > SizeofFbinfo

(* C5: once the orientation has been looked at, the geometry in use is *)
(* the reported (h, w) when the orientation has the swap bit set and   *)
(* the reported (w, h) otherwise; the buffer size and the header are   *)
(* made of that geometry, and it never changes again.                  *)
C5_OrientationSwap ==
  (reported.format \in Formats /\ pc \notin {"getDisplayInfo", "orientation"}) =>
    /\ IF reported.orientation \in {1, 3}
         THEN info.w = reported.h /\ info.h = reported.w
         ELSE info.w = reported.w /\ info.h = reported.h
    /\ fb_size = info.w * info.h * reported.bytesPerPixel
    /\ (Did("write_data") => fbinfo.width = info.w /\ fbinfo.height = info.h)

C5_Witness ==
  /\ Exited
  /\ exitCode = 0
  /\ reported.orientation = 3
  /\ reported.w = 1
  /\ reported.h = 2
  /\ fbinfo.width = 2
  /\ fbinfo.height = 1

(* C6: the header handed to the sink has version 1, the corrected      *)
(* width and height, size = width x height x bytesPerPixel, and the    *)
(* bpp and red/green/blue (offset, length) of its format: 32 and       *)
(* (0,8) (8,8) (16,8) for RGBA-8888, 16 and (11,5) (5,6) (0,5) for     *)
(* RGB-565.                                                            *)
C6_HeaderFields ==
  (Did("write_data") /\ WireFormat(info.format)) =>
    /\ fbinfo.version = 1
    /\ fbinfo.width = info.w
    /\ fbinfo.height = info.h
    /\ fbinfo.size = info.w * info.h * info.bytesPerPixel
    /\ (info.format = PIXEL_FORMAT_RGBA_8888 =>
          /\ fbinfo.bpp = 32
          /\ << fbinfo.red_offset, fbinfo.red_length >> = << 0, 8 >>
          /\ << fbinfo.green_offset, fbinfo.green_length >> = << 8, 8 >>
          /\ << fbinfo.blue_offset, fbinfo.blue_length >> = << 16, 8 >>)
    /\ (info.format = PIXEL_FORMAT_RGB_565 =>
          /\ fbinfo.bpp = 16
          /\ << fbinfo.red_offset, fbinfo.red_length >> = << 11, 5 >>
          /\ << fbinfo.green_offset, fbinfo.green_length >> = << 5, 6 >>
          /\ << fbinfo.blue_offset, fbinfo.blue_length >> = << 0, 5 >>)
    /\ (Len(sink) >= SizeofFbinfo =>
          SubSeq(sink, 1, SizeofFbinfo) = HeaderBytes(fbinfo))

C6_Witness ==
  /\ Len(sink) >= SizeofFbinfo
  /\ info.format = PIXEL_FORMAT_RGBA_8888
  /\ info.w = 4
  /\ info.h = 2
  /\ fbinfo.size = 32
  /\ fbinfo.bpp = 32

(* C7: in every header written to the sink the alpha offset and the    *)
(* alpha length are both 0, whatever the header storage held before.   *)
C7_AlphaZero ==
  (Did("write_data") /\ WireFormat(info.format) /\ Len(sink) >= SizeofFbinfo) =>
    /\ fbinfo.alpha_offset = 0
    /\ fbinfo.alpha_length = 0
    /\ \A k \in (SizeofFbinfo - 2 * FieldBytes + 1)..SizeofFbinfo : sink[k] = 0

(* C8: the exit code is 0 if and only if the display query, the        *)
(* allocation, the mapping, the capture and the complete encode (the   *)
(* whole header and all rows) succeeded; any failure, a write          *)
(* returning 0 without setting errno included, gives a nonzero code.   *)
C8_ExitCode ==
  Exited => (exitCode = 0 <=> AllSucceeded)

(* C9: when a header or row write does not complete, write_data        *)
(* returns an error, no further write is issued to the sink, and the   *)
(* sink holds a strict prefix of the full stream.                      *)
C9_StopsAtFailure ==
  failed =>
    /\ Returned
    /\ err # NO_ERROR
    /\ ~wroteAfterFail
    /\ StrictPrefix(sink, FullStream)

(* C10: when the encode has succeeded (write_data returned NO_ERROR)   *)
(* the sink holds exactly the 52-byte header followed by width x       *)
(* height x bytesPerPixel pixel bytes, a count equal to the header's   *)
(* size field and to the length of the captured buffer.                *)
C10_StreamOnSuccess ==
  (Returned /\ err = NO_ERROR) =>
    /\ SizeofFbinfo = 52
    /\ Len(sink) = SizeofFbinfo + info.w * info.h * info.bytesPerPixel
    /\ SubSeq(sink, 1, SizeofFbinfo) = HeaderBytes(fbinfo)
    /\ Len(PixelsSent) = fbinfo.size
    /\ Len(PixelsSent) = Len(frame)

(* The k-th 4-byte unsigned field of a byte sequence, least significant *)
(* byte first.                                                          *)
Word(s, k) ==
  s[FieldBytes * (k - 1) + 1]
    + ByteRange * s[FieldBytes * (k - 1) + 2]
    + ByteRange * ByteRange * s[FieldBytes * (k - 1) + 3]
    + ByteRange * ByteRange * ByteRange * s[FieldBytes * (k - 1) + 4]

(* C11 as stated: the header in the sink is 13 consecutive 4-byte      *)
(* fields, 52 bytes, in the order version, bitsPerPixel, size, width,  *)
(* height, then the (offset, length) pairs of red, green, blue, alpha. *)
C11_ClaimedOrder ==
  Len(sink) >= SizeofFbinfo =>
    /\ SizeofFbinfo = 52
    /\ \A k \in 1..13 :
         Word(sink, k) =
           fbinfo[<< "version", "bpp", "size", "width", "height",
                     "red_offset", "red_length", "green_offset", "green_length",
                     "blue_offset", "blue_length", "alpha_offset",
                     "alpha_length" >>[k]]

(* C11 amended: the header in the sink is 13 consecutive 4-byte        *)
(* fields, 52 bytes, in the order version, bitsPerPixel, size, width,  *)
(* height, then the (offset, length) pairs of red, blue, green, alpha. *)
C11_DeclaredOrder ==
  Len(sink) >= SizeofFbinfo =>
    /\ SizeofFbinfo = 52
    /\ \A k \in 1..13 :
         Word(sink, k) =
           fbinfo[<< "version", "bpp", "size", "width", "height",
                     "red_offset", "red_length", "blue_offset", "blue_length",
                     "green_offset", "green_length", "alpha_offset",
                     "alpha_length" >>[k]]

C11_Witness ==
  /\ Len(sink) >= SizeofFbinfo
  /\ info.format = PIXEL_FORMAT_RGBA_8888
  /\ Word(sink, 1) = 1
  /\ Word(sink, 2) = 32
  /\ Word(sink, 6) = 0
  /\ Word(sink, 8) = 16
  /\ Word(sink, 10) = 8
  /\ Word(sink, 12) = 1515870810

(* C12: when the encode returned success and the munmap that follows  *)
(* fails, the failure changes nothing else: main goes on to close the  *)
(* handle and the process exits with code 0.                           *)
C12_UnmapFailureIgnored ==
  (Did("munmap") /\ mapping = "mapped") =>
    /\ err = NO_ERROR
    /\ pc \in {"close", "exit"}
    /\ (Exited => fb_fd = "closed" /\ Did("close") /\ exitCode = 0)

C12_Witness ==
  /\ Exited
  /\ Did("munmap")
  /\ mapping = "mapped"
  /\ errno = EIO
  /\ ~failed
  /\ Len(sink) > SizeofFbinfo
  /\ fb_fd = "closed"
  /\ exitCode = 0

(* C13 (under SpecWritex): with a sink that accepts any 1..len bytes   *)
(* per write, the bytes accepted so far are always the span's bytes    *)
(* from its start to p, in order, p and len having moved by exactly    *)
(* the counts accepted; writex returns success only when the sink      *)
(* holds the whole span, no byte sent twice or skipped.                *)
C13_ShortWrites ==
  /\ (pc = "writex_row" /\ ~failed) =>
       /\ data <= p
       /\ p + len = data + linesize
       /\ sink = SubSeq(frame, data + 1, p)
  /\ pc = "row_loop" =>
       /\ ~failed
       /\ sink = SubSeq(frame, data + 1, data + linesize)

C13_Witness ==
  /\ pc = "writex_row"
  /\ linesize = 4
  /\ data = 1
  /\ p = 3
  /\ len = 2
  /\ intr = 0
  /\ sink = << frame[2], frame[3] >>

(* C14: during row emission the cursor stays inside the captured      *)
(* buffer: it is never before the buffer start; at each row write it   *)
(* is at a multiple of linesize between 0 and fb_size - linesize, and  *)
(* the write reads exactly the linesize bytes from there; after the    *)
(* last of the height rows it is exactly at the buffer start.          *)
C14_CursorInBuffer ==
  /\ data >= 0
  /\ pc \in {"row_loop", "writex_row"} =>
       /\ linesize = info.bytesPerPixel * info.w
       /\ y <= info.h
  /\ pc = "writex_row" =>
       /\ y < info.h
       /\ data = (info.h - 1 - y) * linesize
       /\ data <= fb_size - linesize
       /\ data <= p
       /\ p + len = data + linesize
       /\ len >= 0
  /\ pc = "row_loop" => data = (info.h - y) * linesize
  /\ (pc = "row_loop" /\ y = info.h) => data = 0

C14_Witness ==
  /\ pc = "row_loop"
  /\ info.h = 2
  /\ y = 2
  /\ linesize = 8
  /\ data = 0
  /\ Len(sink) = SizeofFbinfo + 16

(* The external operations of a run, in the order main performs them. *)
OpOrder ==
  << "getDisplayInfo", "ashmem_create_region", "mmap", "grabScreen",
     "write_data", "munmap", "close" >>

(* The operations up to the encode happen in the fixed order, each at  *)
(* most once, each only after every earlier one succeeded (an          *)
(* operation succeeded when it reported no error), and the encoder     *)
(* runs on the captured, still mapped buffer.                          *)
OrderedUpToUnmap ==
  /\ Len(ops) <= Len(OpOrder)
  /\ ops = SubSeq(OpOrder, 1, Len(ops))
  /\ Len(ops) >= 2 => reported.format \in Formats
  /\ Len(ops) >= 3 => fb_fd # "none"
  /\ Len(ops) >= 4 => mapping # "none"
  /\ Len(ops) >= 5 => \E seed \in FrameSeeds : frame = Captured(seed, fb_size)
  /\ Len(ops) >= 6 => err = NO_ERROR
  /\ pc \in {"writex_hdr", "row_loop", "writex_row"} =>
       /\ Len(ops) = 5
       /\ mapping = "mapped"
       /\ fb_fd = "open"

(* C15 as stated: display query, buffer creation, mapping, capture,    *)
(* encode, unmap, close happen in that order, each at most once and    *)
(* each only if all the preceding ones succeeded.                      *)
C15_EachAfterSuccess ==
  /\ OrderedUpToUnmap
  /\ Len(ops) >= 7 => mapping = "unmapped"

(* C15 amended: the same order, each at most once, each only if all    *)
(* the preceding ones succeeded, except the close, which follows the   *)
(* unmap whether or not the unmap succeeded.                           *)
C15_LinearSequence ==
  /\ OrderedUpToUnmap
  /\ Len(ops) >= 7 => mapping \in {"mapped", "unmapped"}

C15_Witness ==
  /\ Exited
  /\ ops = OpOrder
  /\ mapping = "mapped"
  /\ fb_fd = "closed"
  /\ err = NO_ERROR
  /\ ~failed
  /\ Len(sink) = SizeofFbinfo + fb_size
  /\ info.w > 0
  /\ info.h > 0

(* writex is running (lines 63-72). *)
InWritex == pc \in {"writex_hdr", "writex_row"}

(* C16 (under SpecWriteData, where the sink does not interrupt        *)
(* forever): every write that transmits strictly decreases the         *)
(* remaining len, never below 0, every write that neither transmits    *)
(* nor is interrupted ends the call with an error, and an interrupted  *)
(* write changes neither p nor len; the rows are counted by y, which   *)
(* only grows by one per completed row call and never beyond height,   *)
(* so write_data makes at most 1 + height writex calls; every writex   *)
(* call ends, and write_data returns.                                  *)
C16_Terminates ==
  /\ [][InWritex =>
          /\ (sink' # sink => pc' = pc /\ len' < len /\ len' >= 0
                              /\ len - len' = Len(sink') - Len(sink))
          /\ ((failed' /\ ~failed) => pc' = "write_data_ret" /\ err' = -errno')
          /\ ((pc' = pc /\ sink' = sink) => len' = len /\ p' = p /\ errno' = EINTR)]_vars
  /\ [][y' # y => \/ (pc = "writex_hdr" /\ y' = 0)
                  \/ (pc = "writex_row" /\ y' = y + 1 /\ y' <= info.h)]_vars
  /\ [](pc = "writex_row" => y < info.h)
  /\ (InWritex ~> ~InWritex)
  /\ <>(pc = "write_data_ret")

C16_Witness ==
  /\ pc = "write_data_ret"
  /\ intr = MaxIntr
  /\ errno = EINTR
  /\ ~failed
  /\ y = info.h
  /\ info.h = 2
  /\ info.w = 1
  /\ Len(sink) = SizeofFbinfo + fb_size

(* C17: no write to the sink is attempted, and no byte reaches it,    *)
(* before the display query, the allocation, the mapping and the       *)
(* capture have all succeeded; a run in which one of them fails ends   *)
(* with the sink empty.                                                *)
C17_NoOutputBeforeCapture ==
  /\ ~Did("write_data") =>
       /\ sink = << >>
       /\ ~InWritex
       /\ ~failed
       /\ intr = 0
  /\ (sink # << >> \/ InWritex \/ failed \/ intr > 0) =>
       /\ SubSeq(ops, 1, 4) =
            << "getDisplayInfo", "ashmem_create_region", "mmap", "grabScreen" >>
       /\ reported.format \in Formats
       /\ fb_fd # "none"
       /\ mapping # "none"
       /\ \E seed \in FrameSeeds : frame = Captured(seed, fb_size)

C17_Witness ==
  /\ Exited
  /\ ops = << "getDisplayInfo", "ashmem_create_region", "mmap", "grabScreen" >>
  /\ fb_size > 0
  /\ sink = << >>
  /\ exitCode = 255

====
